---- MODULE Spec2Model ----
(***************************************************************************)
(* Frank-Wolfe drivers of copt/frank_wolfe.py as one state machine.        *)
(*                                                                         *)
(* Numbers are exact rationals extended with +Inf, -Inf and NaN, the       *)
(* values numpy's float64 division by zero produces.  Float operations    *)
(* are taken at their exact real value, except where Round52 is applied.   *)
(* Magnitudes are naturals written as little-endian digit sequences to the *)
(* base Base, because the program's constants (1e10, 2^-52, 0.999^k) do    *)
(* not fit a machine integer.                                              *)
(***************************************************************************)
EXTENDS Integers, Sequences, FiniteSets

VARIABLES driver, ls_strategy, inp, x_t, f_t, grad, L_t, it, pc, loc,
          active_set, coefs_active_set, weight_zero, calls, last

vars == <<driver, ls_strategy, inp, x_t, f_t, grad, L_t, it, pc, loc,
          active_set, coefs_active_set, weight_zero, calls, last>>

---------------------------------------------------------------------------
(* Naturals of any size: little-endian digits, no leading zero digit,     *)
(* zero is the empty sequence.  Every computation of the model is an arm   *)
(* of the one recursive operator Eval, which is defined after the          *)
(* operators of the program; the named operators below are the entry       *)
(* points of its arithmetic.                                               *)

Base == 10 * 100

MaxOf(S) == CHOOSE m \in S : \A j \in S : j <= m

TrimZ(s) ==
    LET nz == {i \in 1..Len(s) : s[i] # 0}
    IN  IF nz = {} THEN <<>> ELSE SubSeq(s, 1, MaxOf(nz))

Dig(s, i) == IF i >= 1 /\ i <= Len(s) THEN s[i] ELSE 0

\* the value of a magnitude of at most three digits
ToNat(s) == Dig(s, 1) + Base * Dig(s, 2) + Base * Base * Dig(s, 3)

BCmp(a, b) ==
    IF Len(a) < Len(b) THEN -1
    ELSE IF Len(a) > Len(b) THEN 1
    ELSE LET df == {i \in 1..Len(a) : a[i] # b[i]}
         IN  IF df = {} THEN 0
             ELSE IF a[MaxOf(df)] < b[MaxOf(df)] THEN -1 ELSE 1

ShiftUp(s) == IF s = <<>> THEN s ELSE <<0>> \o s

Zero == [s |-> 0, n |-> <<>>, d |-> <<1>>]
NaN  == [s |-> 0, n |-> <<>>, d |-> <<>>]
Inf(sg) == [s |-> sg, n |-> <<1>>, d |-> <<>>]

IsNaN(a) == a.d = <<>> /\ a.s = 0
IsInf(a) == a.d = <<>> /\ a.s # 0
IsFin(a) == a.d # <<>>

RECURSIVE Eval(_, _, _)


NatToBig(k)      == Eval("NatToBig", k, 0)
BAdd(a, b)       == Eval("BAdd", a, b)
BSub(a, b)       == Eval("BSub", a, b)
BMulSmall(a, k)  == Eval("BMulSmall", a, k)
BMul(a, b)       == Eval("BMul", a, b)
QDigit(r, b)     == Eval("QDigit", r, b)
BDivMod(a, b)    == Eval("BDivMod", a, b)
BGcd(a, b)       == Eval("BGcd", a, b)
RNorm(sg, n, d)  == Eval("RNorm", sg, <<n, d>>)
Rat(p, q)        == Eval("Rat", p, q)
RCmp(a, b)       == Eval("RCmp", a, b)
RAdd(a, b)       == Eval("RAdd", a, b)
RMul(a, b)       == Eval("RMul", a, b)
RDiv(a, b)       == Eval("RDiv", a, b)
Round52(a)       == Eval("Round52", a, 0)
svds(g)          == Eval("svds", g, 0)
f_grad(x)        == Eval("f_grad", x, 0)

(* Extended rationals [s, n, d]: sign s in {-1, 0, 1}, magnitude n / d in *)
(* lowest terms.  d = <<>> (zero) marks the non-finite values: 1/0 is Inf, *)
(* -1/0 is -Inf and 0/0 is NaN.                                            *)

One == [s |-> 1, n |-> <<1>>, d |-> <<1>>]

RNeg(a) == [a EXCEPT !.s = -a.s]
RAbs(a) == [a EXCEPT !.s = IF a.s = 0 THEN 0 ELSE 1]
RSub(a, b) == RAdd(a, RNeg(b))

\* float comparisons: every comparison with NaN is false
RLt(a, b) == ~IsNaN(a) /\ ~IsNaN(b) /\ RCmp(a, b) < 0
RLe(a, b) == ~IsNaN(a) /\ ~IsNaN(b) /\ RCmp(a, b) <= 0
REq(a, b) == ~IsNaN(a) /\ ~IsNaN(b) /\ RCmp(a, b) = 0

\* Python's min(a, b): b when b < a, else a (so min(NaN, b) is NaN)
PyMin(a, b) == IF RLt(b, a) THEN b ELSE a

\* np.sign
RSign(a) == IF IsNaN(a) THEN NaN ELSE [s |-> a.s, n |-> IF a.s = 0 THEN <<>> ELSE <<1>>, d |-> <<1>>]


\* literals: the positive rational n / d from its digits in lowest terms,
\* and the integer k for 0 < k < Base
Frac(n, d) == [s |-> 1, n |-> n, d |-> d]
RInt(k) == [s |-> 1, n |-> <<k>>, d |-> <<1>>]

---------------------------------------------------------------------------
(* Constants of the program.                                               *)

Half == Frac(<<1>>, <<2>>)
Two  == RInt(2)

\* backtrack(ratio_increase=2., ratio_decrease=0.999, max_iter=100)
ratio_increase == Two
ratio_decrease == Frac(<<999>>, <<0, 1>>)
backtrack_max_iter == 100

\* the bisection line searches: max_iter=100, gamma_max=1
ls_max_iter == 100
ls_gamma_max == One

\* for i in range(100) of the inline adaptive loops
adaptive_trials == 100

\* the decay of L_t on a first-trial accept in the inline adaptive loops
decay_FW_trace  == Frac(<<999>>, <<0, 1>>)
decay_PFW_trace == Frac(<<99>>, <<100>>)
decay_L1        == Frac(<<999>>, <<0, 1>>)

\* if L_t >= 1e10: raise ValueError
L_ceiling == Frac(<<0, 0, 0, 10>>, <<1>>)

\* if step_size < 1e-7: break
tiny_step == Frac(<<1>>, <<0, 0, 10>>)

\* if min_vt_st < 1e-4: the oracle atom is already in the active set
dedup_tol == Frac(<<1>>, <<0, 10>>)

\* np.finfo(np.float).eps = 2^-52
LS_EPS == Frac(<<1>>, <<496, 370, 627, 599, 503, 4>>)

\* the slopes 0.1 of approx_ls_armijo and 0.01 of approx_ls_trace
armijo_slope == Frac(<<1>>, <<10>>)
trace_slope  == Frac(<<1>>, <<100>>)

---------------------------------------------------------------------------
(* Vectors are sequences; the code's index j is position j + 1.  The trace *)
(* drivers' matrices are diagonal and are held as their diagonals.         *)

El(v, j) == v[j + 1]

RECURSIVE SumSeq(_, _)
SumSeq(v, k) == IF k = 0 THEN Zero ELSE RAdd(v[k], SumSeq(v, k - 1))

Dot(u, v) == SumSeq([j \in 1..Len(u) |-> RMul(u[j], v[j])] \o <<>>, Len(u))

\* x + a * d
Axpy(x, a, d) == [j \in 1..Len(x) |-> RAdd(x[j], RMul(a, d[j]))] \o <<>>

VSub(u, v) == [j \in 1..Len(u) |-> RSub(u[j], v[j])] \o <<>>
VNeg(u) == [j \in 1..Len(u) |-> RNeg(u[j])] \o <<>>
VZero(n) == [j \in 1..n |-> Zero] \o <<>>

\* v with the code's v[j] = a and v[j] += a
SetAt(v, j, a) == [v EXCEPT ![j + 1] = a]
AddAt(v, j, a) == [v EXCEPT ![j + 1] = RAdd(v[j + 1], a)]

Norm1(v) == SumSeq([j \in 1..Len(v) |-> RAbs(v[j])] \o <<>>, Len(v))

HasNaN(v) == \E j \in 1..Len(v) : IsNaN(v[j])

\* np.argmax(np.abs(g)): the first index of the largest magnitude (the
\* first NaN if there is one)
ArgMaxAbs(g) ==
    IF HasNaN(g) THEN CHOOSE j \in 0..(Len(g) - 1) :
                          /\ IsNaN(El(g, j))
                          /\ \A k \in 0..(j - 1) : ~IsNaN(El(g, k))
    ELSE CHOOSE j \in 0..(Len(g) - 1) :
             /\ \A k \in 0..(Len(g) - 1) : RLe(RAbs(El(g, k)), RAbs(El(g, j)))
             /\ \A k \in 0..(j - 1) : RLt(RAbs(El(g, k)), RAbs(El(g, j)))

---------------------------------------------------------------------------
(* The arguments of a solve.                                               *)

n_features == inp.n
alpha == inp.alpha
tol == inp.tol
max_iter == inp.max_iter

(* The objective oracle f_grad of the L1 drivers is an argument of the     *)
(* solve: the quadratics f(x) = (c/2) * |x - b|^2, grad f(x) = c * (x - b). *)

SqNorm(r) == Dot(r, r)

LossL1(x) == RMul(RMul(Half, inp.c), SqNorm(VSub(x, inp.b)))

GradL1(x) == [j \in 1..Len(x) |-> RMul(inp.c, RSub(x[j], inp.b[j]))] \o <<>>

(* f_grad of the trace drivers, for the diagonal matrix A = diag(inp.b)    *)
(* and P the pattern of A: tmp = A - P.multiply(x),                        *)
(* f = 0.5 * tmp.multiply(tmp).mean() and grad = -tmp / n_features, with   *)
(* n_features = A.shape[0] * A.shape[1].                                   *)

n_features_trace == RInt(Len(inp.b) * Len(inp.b))

LossTrace(x) == RMul(Half, RDiv(SqNorm(VSub(inp.b, x)), n_features_trace))

GradTrace(x) ==
    [j \in 1..Len(x) |->
        RDiv(RNeg(RSub(inp.b[j], x[j])), n_features_trace)] \o <<>>

\* f_grad(x): the loss and the gradient at x
f_grad_Result(x) ==
    IF driver \in {"FW_trace", "PFW_trace"}
    THEN <<LossTrace(x), GradTrace(x)>>
    ELSE <<LossL1(x), GradL1(x)>>


---------------------------------------------------------------------------
(* What is observed of a run.                                              *)

NoLocals == [kind |-> "none"]

\* a solve that drops a call of the callback, against which C10 is tested
CallbackSkipped(x) == [n |-> calls.n, arg |-> x]

\* callback(x_t): the number of calls and the argument of the last one
Callback(x) == [n |-> calls.n + 1, arg |-> x]

\* what the last step of the run did: the gap of the last oracle step, and
\* of the last update its step, its cap, the loss and the coefficient list
\* before it, whether the toward atom was new and the positions of the
\* toward and the away atom (0 when there is none); updates counts the
\* updates of the iterate
Last0 == [ev |-> "start", g_t |-> Zero, step_size |-> Zero,
          gamma_max |-> Zero, f_prev |-> Zero, updates |-> 0,
          coefs_prev |-> <<>>, atom_new |-> FALSE, idx_min_vt_st |-> 0,
          vt_idx |-> 0]

\* the variables a step of a solve may change
Cur ==
    [x_t |-> x_t, f_t |-> f_t, grad |-> grad, L_t |-> L_t, it |-> it,
     pc |-> pc, loc |-> loc, active_set |-> active_set,
     coefs_active_set |-> coefs_active_set, weight_zero |-> weight_zero,
     calls |-> calls, last |-> last]

\* a raise: the solve ends with the exception e
Raise(e) == [Cur EXCEPT !.pc = e]

\* the end of an iteration: x_t, f_t and grad take the line search's
\* values and the callback is called with the new iterate
Advance(x_next, f_next, grad_next, L_new, as, coefs, wz, step_size) ==
    [x_t |-> x_next, f_t |-> f_next, grad |-> grad_next, L_t |-> L_new,
     active_set |-> as, coefs_active_set |-> coefs, weight_zero |-> wz,
     calls |-> Callback(x_next), it |-> it + 1, pc |-> "loop",
     loc |-> NoLocals,
     last |-> [last EXCEPT !.ev = "update", !.step_size = step_size,
                           !.gamma_max = loc.gamma_max, !.f_prev = f_t,
                           !.updates = @ + 1,
                           !.coefs_prev = coefs_active_set,
                           !.atom_new = loc.atom_new,
                           !.idx_min_vt_st = IF driver = "PFW_trace"
                                             THEN loc.idx_min_vt_st ELSE 0,
                           !.vt_idx = IF driver = "PFW_trace"
                                      THEN loc.vt_idx ELSE 0]]

\* the next trial of a line search loop
NextTrial(L_new) == [Cur EXCEPT !.loc.i = @ + 1, !.L_t = L_new]

\* the step without its cap, against which C4 is tested
StepSizeUncapped(g_t, d2_t, L, gamma_max) == RDiv(g_t, RMul(d2_t, L))

\* min(g_t / (d2_t * L_t), gamma_max)
StepSize(g_t, d2_t, L, gamma_max) == PyMin(RDiv(g_t, RMul(d2_t, L)), gamma_max)

\* (f_next - f_t) / step_size
\*     <= -(g_t - 0.5 * step_size * L_t * d2_t) + LS_EPS / step_size
SufficientDecrease(f_next, step_size, g_t, L, d2_t) ==
    RLe(RDiv(RSub(f_next, f_t), step_size),
        RAdd(RNeg(RSub(g_t, RMul(RMul(RMul(Half, step_size), L), d2_t))),
             RDiv(LS_EPS, step_size)))

\* (lbracket + rbracket) / 2. in float64: the sum of two floats of [0, 1]
\* is rounded when it lies in [1, 2]; below 1 the model keeps it exact
HalfOf(s) == RMul(IF IsFin(s) /\ RLe(One, s) THEN Round52(s) ELSE s, Half)
Mid(lbracket, rbracket) == HalfOf(RAdd(lbracket, rbracket))

---------------------------------------------------------------------------
(* minimize_FW_L1                                                          *)

\* lines 121-125: the oracle vertex, the direction and the gap
FW_L1_Direction ==
    LET idx_oracle == ArgMaxAbs(grad)
        mag_oracle == RMul(alpha, RSign(RNeg(El(grad, idx_oracle))))
    IN  AddAt(VNeg(x_t), idx_oracle, mag_oracle)

FW_L1_Locals(d_t) ==
    [kind |-> "FW_L1", i |-> 0, d_t |-> d_t, d2_t |-> SqNorm(d_t),
     g_t |-> RNeg(Dot(d_t, grad)), gamma_max |-> One, atom_new |-> FALSE]

\* lines 120-138: one pass from the head of the loop to the line search.
\* No branch of the if/elif chain assigns step_size for a strategy that is
\* none of the three, and line 139 then reads the unbound name.
FW_L1_Dispatch(h) ==
    [Cur EXCEPT
        !.loc = h,
        !.last = [last EXCEPT !.ev = "gap", !.g_t = h.g_t],
        !.pc = IF RLe(h.g_t, tol) THEN "returned"
             ELSE IF ls_strategy = "adaptive" THEN "backtrack"
             ELSE IF ls_strategy = "Lipschitz" THEN "Lipschitz"
             ELSE IF ls_strategy = "approx_ls" THEN "approx_ls"
             ELSE "UnboundLocalError"]

FW_L1_Head_Result ==
    FW_L1_Dispatch(FW_L1_Locals(FW_L1_Direction))

\* lines 139-146: x_t += step_size * d_t, f_t and grad take f_grad of the
\* new iterate, callback(x_t)
FW_L1_Update(step_size, L_new, x_next) ==
    Advance(x_next, LossL1(x_next), GradL1(x_next), L_new, active_set,
            coefs_active_set, weight_zero, step_size)

\* f_t - step_size * g_t + 0.5 * (step_size**2) * L_t * d2_t
backtrack_rhs(step_size) ==
    RAdd(RSub(f_t, RMul(step_size, loc.g_t)),
         RMul(RMul(RMul(Half, RMul(step_size, step_size)), L_t), loc.d2_t))

\* backtrack, lines 13-23: one trial of the for loop.  A rejected trial
\* changes nothing but i; the else branch of the for loop multiplies L_t
\* by ratio_increase once all the trials are used up, and the step of the
\* last trial is returned.
backtrack_Trial(step_size, x_next, accepted) ==
    IF accepted
    THEN FW_L1_Update(step_size,
             IF loc.i = 0 THEN RMul(L_t, ratio_decrease) ELSE L_t, x_next)
    ELSE IF loc.i + 1 = backtrack_max_iter
    THEN FW_L1_Update(step_size, RMul(L_t, ratio_increase), x_next)
    ELSE NextTrial(L_t)

backtrack_Step(step_size, x_next) ==
    backtrack_Trial(step_size, x_next,
                    RLe(LossL1(x_next), backtrack_rhs(step_size)))

FW_L1_BacktrackTrial_Result ==
    LET step_size == StepSize(loc.g_t, loc.d2_t, L_t, One)
    IN  backtrack_Step(step_size, Axpy(x_t, step_size, loc.d_t))

\* lines 131-134
FW_L1_Lipschitz_Result ==
    LET step_size == StepSize(loc.g_t, loc.d2_t, L_t, One)
    IN  FW_L1_Update(step_size, L_t, Axpy(x_t, step_size, loc.d_t))

\* approx_ls_armijo, lines 94-97: the brackets and their slopes
approx_ls_armijo_Init_Result ==
    [Cur EXCEPT
        !.pc = "bisect",
        !.loc = [kind |-> "bisect", i |-> 0, d_t |-> loc.d_t,
                 d2_t |-> loc.d2_t, g_t |-> loc.g_t, gamma_max |-> One,
                 atom_new |-> FALSE,
                 lbracket |-> Zero,
                 grad_lbracket |->
                     Dot(loc.d_t, GradL1(Axpy(x_t, Zero, loc.d_t))),
                 rbracket |-> ls_gamma_max,
                 grad_rbracket |->
                     Dot(loc.d_t, GradL1(Axpy(x_t, ls_gamma_max, loc.d_t)))]]

\* the bracket update of the three bisections
Bracket(c, grad_c) ==
    IF RLe(Zero, RMul(grad_c, loc.grad_lbracket))
    THEN [loc EXCEPT !.lbracket = c, !.grad_lbracket = grad_c, !.i = @ + 1]
    ELSE [loc EXCEPT !.rbracket = c, !.grad_rbracket = grad_c, !.i = @ + 1]

BisectAgain(c, grad_c) == [Cur EXCEPT !.loc = Bracket(c, grad_c)]

\* approx_ls_armijo, lines 98-110, and lines 138-146 once it returns c
approx_ls_armijo_Trial(c, x_c, grad_c) ==
    IF RLt(LossL1(x_c), RAdd(f_t, RMul(RMul(armijo_slope, c), grad_c)))
       \/ loc.i + 1 = ls_max_iter
    THEN FW_L1_Update(c, L_t, x_c)
    ELSE BisectAgain(c, grad_c)

approx_ls_armijo_At(c, x_c) ==
    approx_ls_armijo_Trial(c, x_c, Dot(loc.d_t, GradL1(x_c)))

approx_ls_armijo_Step_Result ==
    IF ~RLe(RMul(loc.grad_lbracket, loc.grad_rbracket), Zero)
    THEN Raise("AssertionError")
    ELSE LET c == Mid(loc.lbracket, loc.rbracket)
         IN  approx_ls_armijo_At(c, Axpy(x_t, c, loc.d_t))

---------------------------------------------------------------------------
(* minimize_PFW_L1 and minimize_AFW_L1: the active set is the mask of      *)
(* 2n + 1 slots, slot j < n for +alpha e_j, slot n + j for -alpha e_j and  *)
(* slot 2n for the origin.                                                 *)

\* the correlation max_active compares for slot j < 2n
SlotVal(g, j) == IF j < Len(g) THEN El(g, j) ELSE RNeg(El(g, j % Len(g)))

\* max_active, lines 343-361: the first active slot of the largest
\* correlation, -1 when no slot is active; the origin slot when it is
\* active and the largest correlation is negative
max_active(g, as) ==
    LET n == Len(g)
        C == {j \in 0..(2 * n - 1) :
                 El(as, j) /\ RLt(Inf(-1), SlotVal(g, j))}
        best == IF C = {} THEN -1
                ELSE CHOOSE j \in C :
                         /\ \A k \in C : RLe(SlotVal(g, k), SlotVal(g, j))
                         /\ \A k \in C : k < j => RLt(SlotVal(g, k), SlotVal(g, j))
    IN  IF (best = -1 \/ SlotVal(g, best).s < 0) /\ El(as, 2 * n)
        THEN 2 * n ELSE best

\* lines 385-387: np.argmax(np.abs(grad)), plus n_features when the entry
\* is positive
OracleSlot(g) ==
    LET j == ArgMaxAbs(g)
    IN  IF RLt(Zero, El(g, j)) THEN j + Len(g) ELSE j

\* np.sign(float(k))
SignOf(k) == IF k > 0 THEN One ELSE IF k < 0 THEN RNeg(One) ELSE Zero

\* a numpy index: a negative index counts from the end
Wrap(j, len) == j % len

\* x != 0 of numpy: true of NaN
NonZero(x) == ~REq(x, Zero)

\* lines 451-452 and 591-592
RaiseCeiling(L_new) == [Cur EXCEPT !.pc = "ValueError(L_t)", !.L_t = L_new]

\* the step from the head of the loop of an away-step L1 driver
DispatchL1(h, failed, same_vertex) ==
    [Cur EXCEPT
        !.loc = h,
        !.last = IF failed THEN last
                 ELSE [last EXCEPT !.ev = "gap", !.g_t = h.g_t],
        !.pc = IF failed THEN "AssertionError"
               ELSE IF RLe(h.g_t, tol) THEN "returned"
               ELSE IF same_vertex THEN "ValueError(same vertex)"
               ELSE IF ls_strategy = "adaptive" THEN "adaptive"
               ELSE IF ls_strategy = "Lipschitz" THEN "Lipschitz"
               ELSE "ValueError(ls_strategy)"]

\* lines 385-403
PFW_L1_Locals(idx_oracle, max_grad_active_idx) ==
    LET o == idx_oracle % n_features
        a == max_grad_active_idx % n_features
        mag_oracle == RMul(alpha, RSign(RNeg(El(grad, o))))
        mag_away == RMul(alpha, SignOf(n_features - max_grad_active_idx))
        is_away_zero == max_grad_active_idx = 2 * n_features
    IN  [kind |-> "PFW_L1", i |-> 0, atom_new |-> FALSE,
         idx_oracle |-> idx_oracle,
         max_grad_active_idx |-> max_grad_active_idx,
         mag_oracle |-> mag_oracle, mag_away |-> mag_away,
         is_away_zero |-> is_away_zero,
         gamma_max |-> IF is_away_zero THEN weight_zero
                       ELSE RDiv(RAbs(El(x_t, a)), alpha),
         g_t |-> RSub(RMul(El(grad, a), mag_away),
                      RMul(El(grad, o), mag_oracle)),
         d2_t |-> RMul(Two, RMul(alpha, alpha))]

\* lines 383-449: one pass from the head of the loop to the line search
PFW_L1_Enter(h) ==
    DispatchL1(h, ~RLt(Zero, h.gamma_max),
               h.idx_oracle = h.max_grad_active_idx)

PFW_L1_Head_Result ==
    PFW_L1_Enter(PFW_L1_Locals(OracleSlot(grad),
                               max_active(grad, active_set)))

\* lines 418-420: the two coordinates the step moves, both from x_t
PFW_L1_x_next(step_size) ==
    LET o == loc.idx_oracle % n_features
        a == loc.max_grad_active_idx % n_features
        x1 == SetAt(x_t, o, RAdd(El(x_t, o), RMul(step_size, loc.mag_oracle)))
    IN  IF loc.is_away_zero THEN x1
        ELSE SetAt(x1, a, RSub(El(x_t, a), RMul(step_size, loc.mag_away)))

\* lines 456-467: the mask and the weight of the origin after the step;
\* in the first iteration (it = 0) only the oracle's slot is updated
PFW_L1_weight_zero(step_size) ==
    IF it > 0 /\ loc.is_away_zero THEN RSub(weight_zero, step_size)
    ELSE weight_zero

PFW_L1_active_set(x_next, wz) ==
    LET as1 == SetAt(active_set, loc.idx_oracle,
                     NonZero(El(x_next, loc.idx_oracle % n_features)))
    IN  IF it > 0
        THEN IF loc.is_away_zero
             THEN IF REq(wz, Zero) THEN SetAt(as1, 2 * n_features, FALSE)
                  ELSE as1
             ELSE SetAt(as1, Wrap(loc.max_grad_active_idx, Len(as1)),
                        NonZero(El(x_next, loc.max_grad_active_idx % n_features)))
        ELSE as1

PFW_L1_Apply(step_size, L_new, x_next, wz) ==
    Advance(x_next, LossL1(x_next), GradL1(x_next), L_new,
            PFW_L1_active_set(x_next, wz), coefs_active_set, wz, step_size)

\* lines 451-487
PFW_L1_Finish(step_size, L_new, x_next) ==
    IF RLe(L_ceiling, L_new) THEN RaiseCeiling(L_new)
    ELSE PFW_L1_Apply(step_size, L_new, x_next, PFW_L1_weight_zero(step_size))

\* the end of one trial of the adaptive loops of the L1 away drivers
\* (lines 422-429 and 566-575): the L_t it leaves
TrialL(tiny, ok) ==
    IF tiny THEN L_t
    ELSE IF ok THEN (IF loc.i = 0 THEN RMul(L_t, decay_L1) ELSE L_t)
    ELSE RMul(L_t, Two)

\* lines 413-429: one trial of the adaptive loop
PFW_L1_Trial(step_size, x_next, tiny, ok) ==
    IF tiny \/ ok \/ loc.i + 1 = adaptive_trials
    THEN PFW_L1_Finish(step_size, TrialL(tiny, ok), x_next)
    ELSE NextTrial(TrialL(tiny, ok))

PFW_L1_Try(step_size, x_next) ==
    PFW_L1_Trial(step_size, x_next, RLt(step_size, tiny_step),
                 SufficientDecrease(LossL1(x_next), step_size, loc.g_t,
                                    L_t, loc.d2_t))

PFW_L1_AdaptiveTrial_Result ==
    LET step_size == StepSize(loc.g_t, loc.d2_t, L_t, loc.gamma_max)
    IN  PFW_L1_Try(step_size, PFW_L1_x_next(step_size))

\* lines 442-447
PFW_L1_Lipschitz_Result ==
    LET step_size == StepSize(loc.g_t, loc.d2_t, L_t, loc.gamma_max)
    IN  PFW_L1_Finish(step_size, L_t, PFW_L1_x_next(step_size))

\* lines 512-553: the forward and the away gap and the direction of the
\* larger one
AFW_L1_Gaps(idx_oracle, max_grad_active_idx) ==
    LET o == idx_oracle % n_features
        a == max_grad_active_idx % n_features
        mag_oracle == RMul(alpha, RSign(RNeg(El(grad, o))))
        mag_away == RMul(alpha, SignOf(n_features - max_grad_active_idx))
        x_grad == Dot(grad, x_t)
    IN  [idx_oracle |-> idx_oracle,
         max_grad_active_idx |-> max_grad_active_idx,
         mag_oracle |-> mag_oracle, mag_away |-> mag_away,
         gt_fw |-> RAdd(RMul(RNeg(mag_oracle), El(grad, o)), x_grad),
         gt_a |-> RAdd(RNeg(x_grad), RMul(mag_away, El(grad, a)))]

AFW_L1_Direction(p, d_t, gamma_max, g_t) ==
    [kind |-> "AFW_L1", i |-> 0, atom_new |-> FALSE,
     idx_oracle |-> p.idx_oracle,
     max_grad_active_idx |-> p.max_grad_active_idx,
     gt_fw |-> p.gt_fw, gt_a |-> p.gt_a,
     d_t |-> d_t, gamma_max |-> gamma_max, g_t |-> g_t,
     d2_t |-> SqNorm(d_t)]

AFW_L1_Locals(p, alpha_v) ==
    IF RLe(p.gt_a, p.gt_fw)
    THEN AFW_L1_Direction(p, AddAt(VNeg(x_t), p.idx_oracle % n_features,
                                   p.mag_oracle),
                          One, p.gt_fw)
    ELSE AFW_L1_Direction(p, AddAt(x_t, p.max_grad_active_idx % n_features,
                                   RNeg(p.mag_away)),
                          RDiv(alpha_v, RSub(One, alpha_v)), p.gt_a)

AFW_L1_Enter(h) == DispatchL1(h, ~RLe(Zero, h.gt_fw), FALSE)

AFW_L1_Choose(p) ==
    AFW_L1_Enter(AFW_L1_Locals(p,
        RDiv(RAbs(El(x_t, p.max_grad_active_idx % n_features)), alpha)))

AFW_L1_Head_Result ==
    AFW_L1_Choose(AFW_L1_Gaps(OracleSlot(grad),
                              max_active(grad, active_set)))

\* lines 596-598: the slots of the oracle and of the away vertex
AFW_L1_active_set(x_next) ==
    LET as1 == SetAt(active_set, loc.idx_oracle,
                     NonZero(El(x_next, loc.idx_oracle % n_features)))
    IN  SetAt(as1, Wrap(loc.max_grad_active_idx, Len(as1)),
              NonZero(El(x_next, loc.max_grad_active_idx % n_features)))

\* lines 591-614
AFW_L1_Finish(step_size, L_new, x_next) ==
    IF RLe(L_ceiling, L_new) THEN RaiseCeiling(L_new)
    ELSE Advance(x_next, LossL1(x_next), GradL1(x_next), L_new,
                 AFW_L1_active_set(x_next), coefs_active_set, weight_zero,
                 step_size)

\* lines 556-575: one trial of the adaptive loop
AFW_L1_Trial(step_size, x_next, tiny, ok) ==
    IF tiny \/ ok \/ loc.i + 1 = adaptive_trials
    THEN AFW_L1_Finish(step_size, TrialL(tiny, ok), x_next)
    ELSE NextTrial(TrialL(tiny, ok))

AFW_L1_Try(step_size, x_next) ==
    AFW_L1_Trial(step_size, x_next, RLt(step_size, tiny_step),
                 SufficientDecrease(LossL1(x_next), step_size, loc.g_t,
                                    L_t, loc.d2_t))

AFW_L1_AdaptiveTrial_Result ==
    LET step_size == StepSize(loc.g_t, loc.d2_t, L_t, loc.gamma_max)
    IN  AFW_L1_Try(step_size, Axpy(x_t, step_size, loc.d_t))

\* lines 584-587
AFW_L1_Lipschitz_Result ==
    LET step_size == StepSize(loc.g_t, loc.d2_t, L_t, loc.gamma_max)
    IN  AFW_L1_Finish(step_size, L_t, Axpy(x_t, step_size, loc.d_t))

---------------------------------------------------------------------------
(* The trace drivers.  svds(-grad, k=1) of a diagonal matrix: u.dot(vt) is *)
(* sign(m_j) E_jj for the entry m_j of -grad of the largest magnitude.     *)
(* svds does not say which triplet it returns when several entries tie or  *)
(* the matrix is zero, nor what it does with NaN entries: any of the tied  *)
(* atoms may come back, and on NaN either svds raises or the atom is NaN.  *)

Atom(m, j, sg) == [k \in 1..m |-> IF k = j THEN RMul(alpha, sg) ELSE Zero] \o <<>>

svds_Result(g) ==
    IF HasNaN(g) THEN {[k \in 1..Len(g) |-> NaN] \o <<>>}
    ELSE LET top == {j \in 1..Len(g) :
                        \A k \in 1..Len(g) : RLe(RAbs(g[k]), RAbs(g[j]))}
         IN  { Atom(Len(g), j, sg) : j \in top, sg \in {One, RNeg(One)} } \
             { Atom(Len(g), j, RSign(g[j])) : j \in top }

---------------------------------------------------------------------------
(* minimize_FW_trace                                                       *)

\* lines 180-181 (and d2_t of lines 185 and 197)
FW_trace_Locals(d_t) ==
    [kind |-> "FW_trace", i |-> 0, atom_new |-> FALSE, d_t |-> d_t,
     g_t |-> RNeg(Dot(grad, d_t)), d2_t |-> SqNorm(d_t), gamma_max |-> One]

\* lines 182-205
FW_trace_Dispatch(h) ==
    [Cur EXCEPT
        !.loc = h,
        !.last = [last EXCEPT !.ev = "gap", !.g_t = h.g_t],
        !.pc = IF RLe(h.g_t, tol) THEN "returned"
             ELSE IF ls_strategy = "adaptive" THEN "adaptive"
             ELSE IF ls_strategy = "Lipschitz" THEN "Lipschitz"
             ELSE IF ls_strategy = "approx_ls" THEN "approx_ls"
             ELSE "ValueError(ls_strategy)"]

FW_trace_Head_Result(s0) ==
    FW_trace_Dispatch(FW_trace_Locals(VSub(s0, x_t)))

\* lines 206-212
FW_trace_Update(step_size, L_new, x_next) ==
    Advance(x_next, LossTrace(x_next), GradTrace(x_next), L_new, active_set,
            coefs_active_set, weight_zero, step_size)

\* lines 186-195: one trial of the adaptive loop
FW_trace_Trial(step_size, x_next, ok) ==
    IF ok
    THEN FW_trace_Update(step_size,
             IF loc.i = 0 THEN RMul(L_t, decay_FW_trace) ELSE L_t, x_next)
    ELSE IF loc.i + 1 = adaptive_trials
    THEN FW_trace_Update(step_size, RMul(L_t, Two), x_next)
    ELSE NextTrial(RMul(L_t, Two))

FW_trace_Try(step_size, x_next) ==
    FW_trace_Trial(step_size, x_next,
                   SufficientDecrease(LossTrace(x_next), step_size, loc.g_t,
                                      L_t, loc.d2_t))

FW_trace_AdaptiveTrial_Result ==
    LET step_size == StepSize(loc.g_t, loc.d2_t, L_t, One)
    IN  FW_trace_Try(step_size, Axpy(x_t, step_size, loc.d_t))

\* lines 196-199
FW_trace_Lipschitz_Result ==
    LET step_size == StepSize(loc.g_t, loc.d2_t, L_t, One)
    IN  FW_trace_Update(step_size, L_t, Axpy(x_t, step_size, loc.d_t))

\* approx_ls and approx_ls_trace, lines 35-38 and 62-65: the brackets and
\* their slopes.  The drivers pass no gamma_max, so rbracket is 1.
BisectTrace_Init_Result ==
    [Cur EXCEPT
        !.pc = "bisect",
        !.loc = [kind |-> "bisect", i |-> 0, d_t |-> loc.d_t,
                 d2_t |-> loc.d2_t, g_t |-> loc.g_t,
                 gamma_max |-> loc.gamma_max, atom_new |-> loc.atom_new,
                 s_t |-> IF driver = "PFW_trace" THEN loc.s_t ELSE <<>>,
                 idx_min_vt_st |-> IF driver = "PFW_trace"
                                   THEN loc.idx_min_vt_st ELSE 0,
                 vt_idx |-> IF driver = "PFW_trace" THEN loc.vt_idx ELSE 0,
                 lbracket |-> Zero,
                 grad_lbracket |->
                     Dot(loc.d_t, GradTrace(Axpy(x_t, Zero, loc.d_t))),
                 rbracket |-> ls_gamma_max,
                 grad_rbracket |->
                     Dot(loc.d_t, GradTrace(Axpy(x_t, ls_gamma_max, loc.d_t)))]]

\* approx_ls_trace, lines 66-81, and lines 203-212 once it returns: c when
\* fc < f_t + 0.01 * c * grad_gamma, else the middle of the new brackets
approx_ls_trace_Return(step_size) ==
    FW_trace_Update(step_size, L_t, Axpy(x_t, step_size, loc.d_t))

approx_ls_trace_Out(c, fc, grad_c, b) ==
    IF RLt(fc, RAdd(f_t, RMul(RMul(trace_slope, c), grad_c))) THEN c
    ELSE Mid(b.lbracket, b.rbracket)

approx_ls_trace_Trial(c, fc, grad_c) ==
    IF RLt(fc, f_t) \/ loc.i + 1 = ls_max_iter
    THEN approx_ls_trace_Return(
             approx_ls_trace_Out(c, fc, grad_c, Bracket(c, grad_c)))
    ELSE BisectAgain(c, grad_c)

approx_ls_trace_At(c, x_c) ==
    approx_ls_trace_Trial(c, LossTrace(x_c), Dot(loc.d_t, GradTrace(x_c)))

approx_ls_trace_Step_Result ==
    IF ~RLe(RMul(loc.grad_lbracket, loc.grad_rbracket), Zero)
    THEN Raise("AssertionError")
    ELSE LET c == Mid(loc.lbracket, loc.rbracket)
         IN  approx_ls_trace_At(c, Axpy(x_t, c, loc.d_t))

---------------------------------------------------------------------------
(* minimize_PFW_trace: active_set is the list of the atoms and             *)
(* coefs_active_set the list of their coefficients.                        *)

\* (tmp * tmp).max(): NaN when an entry is NaN
MaxSq(v) ==
    IF HasNaN(v) THEN NaN
    ELSE LET sq == [j \in 1..Len(v) |-> RMul(v[j], v[j])] \o <<>>
         IN  sq[CHOOSE j \in 1..Len(v) : \A k \in 1..Len(v) : RLe(sq[k], sq[j])]

\* lines 247-258: the position of the first atom nearest to s_t when it is
\* nearer than 1e-4, else 0
NearestAtom(s_t) ==
    LET norms == [i \in 1..Len(active_set) |->
                     MaxSq(VSub(s_t, active_set[i]))] \o <<>>
        C == {i \in 1..Len(active_set) : RLt(norms[i], Inf(1))}
        first == CHOOSE i \in C :
                     /\ \A k \in C : RLe(norms[i], norms[k])
                     /\ \A k \in C : k < i => RLt(norms[i], norms[k])
    IN  IF C = {} THEN 0
        ELSE IF RLt(norms[first], dedup_tol) THEN first ELSE 0

\* lines 260-270: the position of the last atom of the smallest
\* grad.multiply(x_t - atom).sum(), 0 when every comparison fails
AwayAtom ==
    LET losses == [i \in 1..Len(active_set) |->
                      Dot(grad, VSub(x_t, active_set[i]))] \o <<>>
        C == {i \in 1..Len(active_set) : ~IsNaN(losses[i])}
    IN  IF C = {} THEN 0
        ELSE CHOOSE i \in C :
                 /\ \A k \in C : RLe(losses[i], losses[k])
                 /\ \A k \in C : k > i => RLt(losses[i], losses[k])

\* lines 258 and 282-285 (and d2_t of lines 292 and 303)
PFW_trace_Direction(s_t, near, vt, d_t) ==
    [kind |-> "PFW_trace", i |-> 0, s_t |-> s_t, atom_new |-> near = 0,
     idx_min_vt_st |-> near, vt_idx |-> vt,
     gamma_max |-> coefs_active_set[vt], d_t |-> d_t,
     g_t |-> RNeg(Dot(grad, d_t)), d2_t |-> SqNorm(d_t)]

PFW_trace_Pair(s_t, near, vt) ==
    PFW_trace_Direction(s_t, near, vt, VSub(s_t, active_set[vt]))

PFW_trace_Locals(s0, near, vt) ==
    PFW_trace_Pair(IF near = 0 THEN s0 ELSE active_set[near], near, vt)

\* lines 287-311: g_t <= tol does not leave the loop
PFW_trace_Dispatch(h) ==
    [Cur EXCEPT
        !.loc = h,
        !.last = [last EXCEPT !.ev = "gap", !.g_t = h.g_t],
        !.pc = IF ls_strategy = "adaptive" THEN "adaptive"
             ELSE IF ls_strategy = "Lipschitz" THEN "Lipschitz"
             ELSE IF ls_strategy = "approx_ls" THEN "approx_ls"
             ELSE "ValueError(ls_strategy)"]

\* lines 242-311: one pass from the head of the loop to the line search
PFW_trace_Head_Result(s0) ==
    IF Len(active_set) = 0 THEN Raise("IndexError")
    ELSE IF AwayAtom = 0 THEN Raise("ValueError(no away atom)")
    ELSE PFW_trace_Dispatch(PFW_trace_Locals(s0, NearestAtom(s0), AwayAtom))

RemoveAt(seq, i) == SubSeq(seq, 1, i - 1) \o SubSeq(seq, i + 1, Len(seq))

\* lines 316-326: the toward atom's coefficient grows by the step (the
\* atom is appended when it is new), then the away atom is removed when
\* the step equals gamma_max and else its coefficient shrinks by the step
PFW_trace_active_set(step_size) ==
    LET as1 == IF loc.atom_new THEN Append(active_set, loc.s_t)
               ELSE active_set
    IN  IF REq(step_size, loc.gamma_max) THEN RemoveAt(as1, loc.vt_idx)
        ELSE as1

\* a coefficient update without the drop, against which C7 is tested: the
\* away atom's coefficient always shrinks by the step and is never removed
PFW_trace_coefs_NoDrop(step_size) ==
    LET c1 == IF loc.atom_new THEN Append(coefs_active_set, step_size)
              ELSE [coefs_active_set EXCEPT
                        ![loc.idx_min_vt_st] = RAdd(@, step_size)]
    IN  [c1 EXCEPT ![loc.vt_idx] = RSub(@, step_size)]

PFW_trace_coefs(step_size) ==
    LET c1 == IF loc.atom_new THEN Append(coefs_active_set, step_size)
              ELSE [coefs_active_set EXCEPT
                        ![loc.idx_min_vt_st] = RAdd(@, step_size)]
    IN  IF REq(step_size, loc.gamma_max) THEN RemoveAt(c1, loc.vt_idx)
        ELSE [c1 EXCEPT ![loc.vt_idx] = RSub(@, step_size)]

\* lines 313-334
PFW_trace_Update(step_size, L_new, x_next) ==
    Advance(x_next, LossTrace(x_next), GradTrace(x_next), L_new,
            PFW_trace_active_set(step_size), PFW_trace_coefs(step_size),
            weight_zero, step_size)

\* lines 293-301: one trial of the adaptive loop
PFW_trace_Trial(step_size, x_next, ok) ==
    IF ok
    THEN PFW_trace_Update(step_size,
             IF loc.i = 0 THEN RMul(L_t, decay_PFW_trace) ELSE L_t, x_next)
    ELSE IF loc.i + 1 = adaptive_trials
    THEN PFW_trace_Update(step_size, RMul(L_t, Two), x_next)
    ELSE NextTrial(RMul(L_t, Two))

PFW_trace_Try(step_size, x_next) ==
    PFW_trace_Trial(step_size, x_next,
                    SufficientDecrease(LossTrace(x_next), step_size, loc.g_t,
                                       L_t, loc.d2_t))

PFW_trace_AdaptiveTrial_Result ==
    LET step_size == StepSize(loc.g_t, loc.d2_t, L_t, loc.gamma_max)
    IN  PFW_trace_Try(step_size, Axpy(x_t, step_size, loc.d_t))

\* lines 302-305
PFW_trace_Lipschitz_Result ==
    LET step_size == StepSize(loc.g_t, loc.d2_t, L_t, loc.gamma_max)
    IN  PFW_trace_Update(step_size, L_t, Axpy(x_t, step_size, loc.d_t))

\* approx_ls, lines 39-52, and lines 309-334 once it returns the middle of
\* the brackets.  d_t.T.dot(grad) is taken as the inner product of d_t and
\* grad.
approx_ls_Return(step_size) ==
    PFW_trace_Update(step_size, L_t, Axpy(x_t, step_size, loc.d_t))

approx_ls_Out(b) == Mid(b.lbracket, b.rbracket)

approx_ls_Trial(c, fc, grad_c) ==
    IF RLt(fc, f_t) \/ loc.i + 1 = ls_max_iter
    THEN approx_ls_Return(approx_ls_Out(Bracket(c, grad_c)))
    ELSE BisectAgain(c, grad_c)

approx_ls_At(c, x_c) ==
    approx_ls_Trial(c, LossTrace(x_c), Dot(loc.d_t, GradTrace(x_c)))

approx_ls_Step_Result ==
    IF ~RLe(RMul(loc.grad_lbracket, loc.grad_rbracket), Zero)
    THEN Raise("AssertionError")
    ELSE LET c == Mid(loc.lbracket, loc.rbracket)
         IN  approx_ls_At(c, Axpy(x_t, c, loc.d_t))

---------------------------------------------------------------------------
(* The evaluator: the arithmetic on magnitudes and rationals, and the      *)
(* steps of the solves.                                                    *)

Eval(op, a, b) ==
    CASE op = "NatToBig" ->
           IF a = 0 THEN <<>> ELSE <<a % Base>> \o Eval("NatToBig", a \div Base, 0)

      \* a[1] + a[2] from digit b[1] on, with carry b[2]
      [] op = "AddC" ->
           IF b[1] > Len(a[1]) /\ b[1] > Len(a[2])
           THEN (IF b[2] = 0 THEN <<>> ELSE <<b[2]>>)
           ELSE LET t == Dig(a[1], b[1]) + Dig(a[2], b[1]) + b[2]
                IN  <<t % Base>> \o Eval("AddC", a, <<b[1] + 1, t \div Base>>)

      [] op = "BAdd" ->
           IF a = <<>> THEN b ELSE IF b = <<>> THEN a
           ELSE Eval("AddC", <<a, b>>, <<1, 0>>)

      \* a[1] - a[2] from digit b[1] on, with borrow b[2]
      [] op = "SubC" ->
           IF b[1] > Len(a[1]) THEN <<>>
           ELSE LET t == a[1][b[1]] - Dig(a[2], b[1]) - b[2]
                IN  IF t < 0
                    THEN <<t + Base>> \o Eval("SubC", a, <<b[1] + 1, 1>>)
                    ELSE <<t>> \o Eval("SubC", a, <<b[1] + 1, 0>>)

      \* a - b for a >= b
      [] op = "BSub" ->
           IF b = <<>> THEN a ELSE TrimZ(Eval("SubC", <<a, b>>, <<1, 0>>))

      \* a[1] * a[2] for a digit a[2], from digit b[1] on, with carry b[2]
      [] op = "MulC" ->
           IF b[1] > Len(a[1]) THEN (IF b[2] = 0 THEN <<>> ELSE <<b[2]>>)
           ELSE LET t == a[1][b[1]] * a[2] + b[2]
                IN  <<t % Base>> \o Eval("MulC", a, <<b[1] + 1, t \div Base>>)

      [] op = "BMulSmall" ->
           IF b = 0 \/ a = <<>> THEN <<>>
           ELSE IF b = 1 THEN a
           ELSE Eval("MulC", <<a, b>>, <<1, 0>>)

      \* a[1] * (the digits of a[2] from b on)
      [] op = "MulAcc" ->
           IF b > Len(a[2]) THEN <<>>
           ELSE LET lo == Eval("BMulSmall", a[1], a[2][b])
                    hi == ShiftUp(Eval("MulAcc", a, b + 1))
                IN  Eval("BAdd", lo, hi)

      [] op = "BMul" ->
           IF a = <<>> \/ b = <<>> THEN <<>>
           ELSE IF b = <<1>> THEN a
           ELSE IF a = <<1>> THEN b
           ELSE IF Len(a) = 1 /\ Len(b) = 1 THEN Eval("NatToBig", a[1] * b[1], 0)
           ELSE IF Len(a) >= Len(b) THEN Eval("MulAcc", <<a, b>>, 1)
           ELSE Eval("MulAcc", <<b, a>>, 1)

      \* the quotient digit a \div b for a < b * Base: the three leading
      \* digits of a over the two leading digits of b bracket it within a
      \* few candidates
      [] op = "QDigit" ->
           IF BCmp(a, b) < 0 THEN 0
           ELSE IF Len(b) = 1 THEN ToNat(a) \div b[1]
           ELSE LET lb  == Len(b)
                    r3  == Dig(a, lb + 1) * Base * Base + Dig(a, lb) * Base
                           + Dig(a, lb - 1)
                    b2  == b[lb] * Base + b[lb - 1]
                    hi0 == (r3 + 1) \div b2
                    hi  == IF hi0 > Base - 1 THEN Base - 1 ELSE hi0
                    lo  == r3 \div (b2 + 1)
                IN  CHOOSE q \in lo..hi :
                        /\ BCmp(Eval("BMulSmall", b, q), a) <= 0
                        /\ q = hi \/ BCmp(Eval("BMulSmall", b, q + 1), a) > 0

      \* long division of a[1] by a[2]: the digits b[1], b[1]-1, ..., 1 of
      \* a[1] are brought down onto the remainder b[2]; b[3] holds the
      \* quotient digits found so far
      [] op = "DivLoop" ->
           IF b[1] = 0 THEN [q |-> b[3], r |-> b[2]]
           ELSE LET r1 == TrimZ(<<a[1][b[1]]>> \o b[2])
                    qd == Eval("QDigit", r1, a[2])
                    pr == Eval("BMulSmall", a[2], qd)
                    r2 == Eval("BSub", r1, pr)
                IN  IF Len(r2) >= 0
                    THEN Eval("DivLoop", a, <<b[1] - 1, r2, <<qd>> \o b[3]>>)
                    ELSE [q |-> b[3], r |-> b[2]]

      \* quotient and remainder of a by b, b # 0
      [] op = "BDivMod" ->
           IF BCmp(a, b) < 0 THEN [q |-> <<>>, r |-> a]
           ELSE IF Len(a) <= 3
           THEN [q |-> Eval("NatToBig", ToNat(a) \div ToNat(b), 0),
                 r |-> Eval("NatToBig", ToNat(a) % ToNat(b), 0)]
           ELSE LET top == Len(a) - Len(b) + 1
                    dm  == Eval("DivLoop", <<a, b>>,
                                <<top, SubSeq(a, top + 1, Len(a)), <<>> >>)
                IN  [q |-> TrimZ(dm.q), r |-> dm.r]

      \* Euclid's algorithm on machine integers
      [] op = "NGcd" -> IF b = 0 THEN a ELSE Eval("NGcd", b, a % b)

      \* b steps of Euclid's algorithm on the pair a
      [] op = "ESteps" ->
           IF b = 0 \/ a[2] = <<>> THEN a
           ELSE LET dm == Eval("BDivMod", a[1], a[2])
                IN  Eval("ESteps", <<a[2], dm.r>>, b - 1)

      [] op = "BGcd" ->
           IF b = <<>> THEN a
           ELSE IF Len(a) <= 3 /\ Len(b) <= 3
           THEN LET g == Eval("NGcd", ToNat(a), ToNat(b))
                IN  Eval("NatToBig", g, 0)
           ELSE LET p == Eval("ESteps", <<a, b>>, 8)
                IN  Eval("BGcd", p[1], p[2])

      \* a * b[1] / b[2] in lowest terms, for a sign a and b[2] # 0
      [] op = "RNorm" ->
           IF b[1] = <<>> \/ a = 0 THEN Zero
           ELSE IF b[2] = <<1>> THEN [s |-> a, n |-> b[1], d |-> b[2]]
           ELSE LET g == Eval("BGcd", b[1], b[2])
                IN  IF g = <<1>> THEN [s |-> a, n |-> b[1], d |-> b[2]]
                    ELSE [s |-> a, n |-> Eval("BDivMod", b[1], g).q,
                          d |-> Eval("BDivMod", b[2], g).q]

      \* a / b for machine integers a, b with b > 0
      [] op = "Rat" ->
           LET n == Eval("NatToBig", IF a < 0 THEN -a ELSE a, 0)
               d == Eval("NatToBig", b, 0)
           IN  Eval("RNorm", IF a < 0 THEN -1 ELSE IF a = 0 THEN 0 ELSE 1,
                    <<n, d>>)

      \* the sign of a - b for a, b that are not NaN
      [] op = "RCmp" ->
           IF a.s # b.s THEN (IF a.s < b.s THEN -1 ELSE 1)
           ELSE IF a.s = 0 THEN 0
           ELSE IF IsInf(a) \/ IsInf(b)
                THEN (IF IsInf(a) /\ IsInf(b) THEN 0
                      ELSE IF IsInf(a) THEN a.s ELSE -a.s)
           ELSE a.s * BCmp(Eval("BMul", a.n, b.d), Eval("BMul", b.n, a.d))

      [] op = "RAdd" ->
           IF IsNaN(a) \/ IsNaN(b) THEN NaN
           ELSE IF IsInf(a) THEN (IF IsInf(b) /\ b.s # a.s THEN NaN ELSE a)
           ELSE IF IsInf(b) THEN b
           ELSE IF a.s = 0 THEN b
           ELSE IF b.s = 0 THEN a
           ELSE LET p == Eval("BMul", a.n, b.d)
                    q == Eval("BMul", b.n, a.d)
                    d == Eval("BMul", a.d, b.d)
                    c == BCmp(p, q)
                    n == IF a.s = b.s THEN Eval("BAdd", p, q)
                         ELSE IF c > 0 THEN Eval("BSub", p, q)
                         ELSE Eval("BSub", q, p)
                IN  IF a.s = b.s THEN Eval("RNorm", a.s, <<n, d>>)
                    ELSE IF c = 0 THEN Zero
                    ELSE IF c > 0 THEN Eval("RNorm", a.s, <<n, d>>)
                    ELSE Eval("RNorm", b.s, <<n, d>>)

      [] op = "RMul" ->
           IF IsNaN(a) \/ IsNaN(b) THEN NaN
           ELSE IF IsInf(a) \/ IsInf(b)
                THEN (IF a.s = 0 \/ b.s = 0 THEN NaN ELSE Inf(a.s * b.s))
           ELSE IF a.s = 0 \/ b.s = 0 THEN Zero
           ELSE LET n == Eval("BMul", a.n, b.n)
                    d == Eval("BMul", a.d, b.d)
                IN  Eval("RNorm", a.s * b.s, <<n, d>>)

      \* numpy float64 division: x/0 is +-Inf and 0/0 is NaN (a warning,
      \* no exception)
      [] op = "RDiv" ->
           IF IsNaN(a) \/ IsNaN(b) THEN NaN
           ELSE IF IsInf(b) THEN (IF IsInf(a) THEN NaN ELSE Zero)
           ELSE IF b.s = 0 THEN (IF a.s = 0 THEN NaN ELSE Inf(a.s))
           ELSE IF IsInf(a) THEN Inf(a.s * b.s)
           ELSE IF a.s = 0 THEN Zero
           ELSE LET n == Eval("BMul", a.n, b.d)
                    d == Eval("BMul", a.d, b.n)
                IN  Eval("RNorm", a.s * b.s, <<n, d>>)

      \* a > 0 rounded to the nearest multiple of 2^-52, ties to the even
      \* multiple: the float64 rounding of a value in [1, 2)
      [] op = "Round52" ->
           LET p52 == <<496, 370, 627, 599, 503, 4>>
               num == Eval("BMul", a.n, p52)
               dm  == Eval("BDivMod", num, a.d)
               r2  == Eval("BMulSmall", dm.r, 2)
               c   == BCmp(r2, a.d)
               up  == c > 0 \/ (c = 0 /\ Dig(dm.q, 1) % 2 = 1)
               q   == IF up THEN Eval("BAdd", dm.q, <<1>>) ELSE dm.q
           IN  Eval("RNorm", 1, <<q, p52>>)

      \* the objective, the oracle of the trace drivers and the steps of the
      \* solves
      [] op = "f_grad" -> f_grad_Result(a)
      [] op = "svds" -> svds_Result(a)
      [] op = "FW_L1_Head" -> FW_L1_Head_Result
      [] op = "FW_L1_BacktrackTrial" -> FW_L1_BacktrackTrial_Result
      [] op = "FW_L1_Lipschitz" -> FW_L1_Lipschitz_Result
      [] op = "approx_ls_armijo_Init" -> approx_ls_armijo_Init_Result
      [] op = "approx_ls_armijo_Step" -> approx_ls_armijo_Step_Result
      [] op = "FW_trace_Head" -> FW_trace_Head_Result(a)
      [] op = "FW_trace_AdaptiveTrial" -> FW_trace_AdaptiveTrial_Result
      [] op = "FW_trace_Lipschitz" -> FW_trace_Lipschitz_Result
      [] op = "BisectTrace_Init" -> BisectTrace_Init_Result
      [] op = "approx_ls_trace_Step" -> approx_ls_trace_Step_Result
      [] op = "PFW_trace_Head" -> PFW_trace_Head_Result(a)
      [] op = "PFW_trace_AdaptiveTrial" -> PFW_trace_AdaptiveTrial_Result
      [] op = "PFW_trace_Lipschitz" -> PFW_trace_Lipschitz_Result
      [] op = "approx_ls_Step" -> approx_ls_Step_Result
      [] op = "PFW_L1_Head" -> PFW_L1_Head_Result
      [] op = "PFW_L1_AdaptiveTrial" -> PFW_L1_AdaptiveTrial_Result
      [] op = "PFW_L1_Lipschitz" -> PFW_L1_Lipschitz_Result
      [] op = "AFW_L1_Head" -> AFW_L1_Head_Result
      [] op = "AFW_L1_AdaptiveTrial" -> AFW_L1_AdaptiveTrial_Result
      [] op = "AFW_L1_Lipschitz" -> AFW_L1_Lipschitz_Result

---------------------------------------------------------------------------
(* The actions: one per step of a solve.                                   *)

\* the variables take the values of the record r; the arguments of the
\* solve do not change
Step(r) ==
    /\ x_t' = r.x_t
    /\ f_t' = r.f_t
    /\ grad' = r.grad
    /\ L_t' = r.L_t
    /\ it' = r.it
    /\ pc' = r.pc
    /\ loc' = r.loc
    /\ active_set' = r.active_set
    /\ coefs_active_set' = r.coefs_active_set
    /\ weight_zero' = r.weight_zero
    /\ calls' = r.calls
    /\ last' = r.last
    /\ UNCHANGED <<driver, ls_strategy, inp>>

FW_L1_Head ==
    /\ driver = "FW_L1" /\ pc = "loop" /\ it < max_iter
    /\ Step(Eval("FW_L1_Head", 0, 0))

FW_L1_BacktrackTrial ==
    /\ driver = "FW_L1" /\ pc = "backtrack"
    /\ Step(Eval("FW_L1_BacktrackTrial", 0, 0))

FW_L1_Lipschitz ==
    /\ driver = "FW_L1" /\ pc = "Lipschitz"
    /\ Step(Eval("FW_L1_Lipschitz", 0, 0))

approx_ls_armijo_Init ==
    /\ driver = "FW_L1" /\ pc = "approx_ls"
    /\ Step(Eval("approx_ls_armijo_Init", 0, 0))

approx_ls_armijo_Step ==
    /\ driver = "FW_L1" /\ pc = "bisect"
    /\ Step(Eval("approx_ls_armijo_Step", 0, 0))

\* svds on a matrix with a NaN entry may raise
TraceSvdsRaises ==
    /\ driver \in {"FW_trace", "PFW_trace"}
    /\ pc = "loop" /\ it < max_iter
    /\ HasNaN(grad)
    /\ Step(Raise("ArpackError"))

FW_trace_Head ==
    /\ driver = "FW_trace" /\ pc = "loop" /\ it < max_iter
    /\ \E s0 \in svds(grad) : Step(Eval("FW_trace_Head", s0, 0))

FW_trace_AdaptiveTrial ==
    /\ driver = "FW_trace" /\ pc = "adaptive"
    /\ Step(Eval("FW_trace_AdaptiveTrial", 0, 0))

FW_trace_Lipschitz ==
    /\ driver = "FW_trace" /\ pc = "Lipschitz"
    /\ Step(Eval("FW_trace_Lipschitz", 0, 0))

BisectTrace_Init ==
    /\ driver \in {"FW_trace", "PFW_trace"} /\ pc = "approx_ls"
    /\ Step(Eval("BisectTrace_Init", 0, 0))

approx_ls_trace_Step ==
    /\ driver = "FW_trace" /\ pc = "bisect"
    /\ Step(Eval("approx_ls_trace_Step", 0, 0))

PFW_trace_Head ==
    /\ driver = "PFW_trace" /\ pc = "loop" /\ it < max_iter
    /\ \E s0 \in svds(grad) : Step(Eval("PFW_trace_Head", s0, 0))

PFW_trace_AdaptiveTrial ==
    /\ driver = "PFW_trace" /\ pc = "adaptive"
    /\ Step(Eval("PFW_trace_AdaptiveTrial", 0, 0))

PFW_trace_Lipschitz ==
    /\ driver = "PFW_trace" /\ pc = "Lipschitz"
    /\ Step(Eval("PFW_trace_Lipschitz", 0, 0))

approx_ls_Step ==
    /\ driver = "PFW_trace" /\ pc = "bisect"
    /\ Step(Eval("approx_ls_Step", 0, 0))

PFW_L1_Head ==
    /\ driver = "PFW_L1" /\ pc = "loop" /\ it < max_iter
    /\ Step(Eval("PFW_L1_Head", 0, 0))

PFW_L1_AdaptiveTrial ==
    /\ driver = "PFW_L1" /\ pc = "adaptive"
    /\ Step(Eval("PFW_L1_AdaptiveTrial", 0, 0))

PFW_L1_Lipschitz ==
    /\ driver = "PFW_L1" /\ pc = "Lipschitz"
    /\ Step(Eval("PFW_L1_Lipschitz", 0, 0))

AFW_L1_Head ==
    /\ driver = "AFW_L1" /\ pc = "loop" /\ it < max_iter
    /\ Step(Eval("AFW_L1_Head", 0, 0))

AFW_L1_AdaptiveTrial ==
    /\ driver = "AFW_L1" /\ pc = "adaptive"
    /\ Step(Eval("AFW_L1_AdaptiveTrial", 0, 0))

AFW_L1_Lipschitz ==
    /\ driver = "AFW_L1" /\ pc = "Lipschitz"
    /\ Step(Eval("AFW_L1_Lipschitz", 0, 0))

\* the for loop has run max_iter times: return x_t
LoopExhausted ==
    /\ pc = "loop" /\ it = max_iter
    /\ Step([Cur EXCEPT !.pc = "returned"])

---------------------------------------------------------------------------
(* Inputs.                                                                 *)

MaxIter == 3

\* the rational p / q in lowest terms, for -Base < p < Base, 0 < q < Base
Lit(p, q) ==
    IF p = 0 THEN Zero
    ELSE [s |-> IF p < 0 THEN -1 ELSE 1,
          n |-> <<IF p < 0 THEN -p ELSE p>>, d |-> <<q>>]

V2(p1, q1, p2, q2) == <<Lit(p1, q1), Lit(p2, q2)>>

\* tol=1e-12 of the drivers' signatures
tol_default == Frac(<<1>>, <<0, 0, 0, 0, 1>>)

\* an input: the objective (b, c), alpha, x0, L_t, ls_strategy and tol
In(b, c, a, x0, l, s, t) ==
    [b |-> b, c |-> c, alpha |-> a, x0 |-> x0, L0 |-> l, ls |-> s, tol |-> t]

\* the state before the first iteration: x_t = x0, f_t, grad = f_grad(x_t),
\* callback(x_t)
Start(d, in, x0, as, coefs) ==
    /\ driver = d
    /\ ls_strategy = in.ls
    /\ inp = [n |-> Len(in.b), alpha |-> in.alpha, tol |-> in.tol,
              max_iter |-> MaxIter, b |-> in.b, c |-> in.c]
    /\ L_t = in.L0
    /\ it = 0
    /\ pc = "loop"
    /\ loc = NoLocals
    /\ last = Last0
    /\ x_t = x0
    /\ calls = [n |-> 1, arg |-> x0]
    /\ f_t = f_grad(x0)[1]
    /\ grad = f_grad(x0)[2]
    /\ active_set = as
    /\ coefs_active_set = coefs
    /\ weight_zero = One

InputsFW_L1 ==
    { In(V2(1, 1, 0, 1), RInt(4), RInt(4), V2(0, 1, 0, 1), One, "adaptive", tol_default),
      In(V2(1, 4, -1, 2), One, One, V2(0, 1, 0, 1), One, "adaptive", tol_default),
      In(V2(1, 4, -1, 2), One, One, V2(1, 2, -1, 4), RInt(4), "Lipschitz", tol_default),
      In(V2(1, 4, -1, 2), One, One, V2(0, 1, 0, 1), Lit(1, 8), "Lipschitz", Zero),
      In(V2(1, 1, 0, 1), One, One, V2(0, 1, 0, 1), One, "Lipschitz", tol_default),
      In(V2(1, 4, 1, 2), One, One, V2(1, 2, -1, 2), One, "adaptive", Zero),
      In(V2(1, 4, -1, 2), One, One, V2(0, 1, 0, 1), One, "approx_ls", tol_default),
      In(V2(3, 1, 0, 1), One, One, V2(0, 1, 0, 1), One, "approx_ls", tol_default),
      In(V2(1, 4, -1, 2), One, One, V2(0, 1, 0, 1), One, "bogus", tol_default),
      In(V2(1, 4, -1, 2), One, Zero, V2(0, 1, 0, 1), One, "bogus", tol_default) }

\* lines 114-118
InitFW_L1 ==
    \E in \in InputsFW_L1 : Start("FW_L1", in, in.x0, <<>>, <<>>)

InputsPFW_L1 ==
    { In(V2(0, 1, 1, 2), One, One, V2(0, 1, 0, 1), One, "adaptive", tol_default),
      In(V2(0, 1, 1, 2), One, One, V2(0, 1, 0, 1), One, "Lipschitz", tol_default),
      In(V2(1, 2, 1, 4), One, One, V2(0, 1, 0, 1), One, "adaptive", tol_default),
      In(V2(0, 1, 1, 2), One, One, V2(0, 1, 0, 1), One, "approx_ls", tol_default),
      In(V2(-1, 2, 0, 1), One, One, V2(0, 1, 0, 1), One, "Lipschitz", tol_default) }

InputsAFW_L1 ==
    { In(V2(10, 1, 0, 1), One, One, V2(0, 1, 0, 1), Two, "Lipschitz", tol_default),
      In(V2(1, 4, -1, 2), One, One, V2(0, 1, 0, 1), One, "adaptive", tol_default),
      In(V2(1, 1, 0, 1), One, One, V2(0, 1, 0, 1), One, "Lipschitz", Zero),
      In(V2(1, 4, -1, 2), One, One, V2(0, 1, 0, 1), One, "approx_ls", tol_default) }

\* the trace drivers' inputs: A = diag(b), x0 = 0
InputsFW_trace ==
    { In(V2(4, 5, 2, 5), One, One, V2(0, 1, 0, 1), Lit(1, 8), "adaptive", tol_default),
      In(V2(4, 5, 2, 5), One, One, V2(0, 1, 0, 1), One, "Lipschitz", tol_default),
      In(V2(1, 1, 0, 1), One, One, V2(0, 1, 0, 1), Lit(1, 4), "Lipschitz", Zero),
      In(V2(4, 5, 2, 5), One, One, V2(0, 1, 0, 1), One, "approx_ls", tol_default),
      In(V2(4, 5, 2, 5), One, One, V2(0, 1, 0, 1), One, "bogus", tol_default) }

InputsPFW_trace ==
    { In(V2(10, 1, 0, 1), One, One, V2(0, 1, 0, 1), One, "adaptive", tol_default),
      In(V2(4, 5, 2, 5), One, One, V2(0, 1, 0, 1), One, "Lipschitz", tol_default),
      In(V2(10, 1, 0, 1), One, One, V2(0, 1, 0, 1), RInt(4), "Lipschitz", Zero),
      In(V2(4, 5, 3, 5), One, One, V2(0, 1, 0, 1), One, "approx_ls", tol_default),
      In(V2(4, 5, 2, 5), One, One, V2(0, 1, 0, 1), One, "bogus", tol_default) }

\* lines 366-382 and 494-509: the solve starts from the origin, whose slot
\* is the only active one
OriginOnly(n) == [j \in 1..(2 * n + 1) |-> j = 2 * n + 1]

InitPFW_L1 ==
    \E in \in InputsPFW_L1 :
        Start("PFW_L1", in, VZero(Len(in.b)), OriginOnly(Len(in.b)), <<>>)

InitAFW_L1 ==
    \E in \in InputsAFW_L1 :
        Start("AFW_L1", in, VZero(Len(in.b)), OriginOnly(Len(in.b)), <<>>)

\* lines 153-173
InitFW_trace ==
    \E in \in InputsFW_trace : Start("FW_trace", in, in.x0, <<>>, <<>>)

\* lines 222-240: the active set holds the zero matrix with the coefficient 1
InitPFW_trace ==
    \E in \in InputsPFW_trace :
        Start("PFW_trace", in, in.x0, <<VZero(Len(in.b))>>, <<One>>)

Init == InitFW_L1 \/ InitFW_trace \/ InitPFW_trace \/ InitPFW_L1 \/ InitAFW_L1

Next ==
    \/ FW_L1_Head
    \/ FW_L1_BacktrackTrial
    \/ FW_L1_Lipschitz
    \/ approx_ls_armijo_Init
    \/ approx_ls_armijo_Step
    \/ TraceSvdsRaises
    \/ FW_trace_Head
    \/ FW_trace_AdaptiveTrial
    \/ FW_trace_Lipschitz
    \/ BisectTrace_Init
    \/ approx_ls_trace_Step
    \/ PFW_trace_Head
    \/ PFW_trace_AdaptiveTrial
    \/ PFW_trace_Lipschitz
    \/ approx_ls_Step
    \/ PFW_L1_Head
    \/ PFW_L1_AdaptiveTrial
    \/ PFW_L1_Lipschitz
    \/ AFW_L1_Head
    \/ AFW_L1_AdaptiveTrial
    \/ AFW_L1_Lipschitz
    \/ LoopExhausted

Spec == Init /\ [][Next]_vars

---------------------------------------------------------------------------
(* The claims.  An iteration is complete in the state its update leaves,   *)
(* where last.ev = "update"; the gap of an iteration is last.g_t in the    *)
(* state its oracle step leaves, where last.ev = "gap".                    *)

Updated(d) == driver = d /\ last.ev = "update"

\* C1: in minimize_PFW_L1 with the adaptive or the Lipschitz strategy, after
\* every completed iteration weight_zero >= 0,
\* weight_zero + ||x_t||_1 / alpha = 1, and the origin slot of the mask is
\* set exactly when weight_zero > 0.
C1_WeightsConsistent ==
    (Updated("PFW_L1") /\ ls_strategy \in {"adaptive", "Lipschitz"}
        /\ RLt(Zero, alpha)) =>
        /\ RLe(Zero, weight_zero)
        /\ REq(RAdd(weight_zero, RDiv(Norm1(x_t), alpha)), One)
        /\ El(active_set, 2 * n_features) <=> RLt(Zero, weight_zero)

\* the coefficient-weighted sum of the atoms, entry j
WeightedSum(j) ==
    SumSeq([i \in 1..Len(coefs_active_set) |->
               RMul(coefs_active_set[i], active_set[i][j])] \o <<>>,
           Len(coefs_active_set))

\* C2: in minimize_PFW_trace started from x0 = 0, after every iteration the
\* two lists have the same length, every coefficient is >= 0, the
\* coefficients sum to 1, x_t is the coefficient-weighted sum of the atoms,
\* and the applied step did not exceed gamma_max.
C2_CoefficientsConsistent ==
    (Updated("PFW_trace")
        /\ ls_strategy \in {"adaptive", "Lipschitz", "approx_ls"}) =>
        /\ Len(active_set) = Len(coefs_active_set)
        /\ \A i \in 1..Len(coefs_active_set) : RLe(Zero, coefs_active_set[i])
        /\ REq(SumSeq(coefs_active_set, Len(coefs_active_set)), One)
        /\ \A j \in 1..Len(x_t) : REq(x_t[j], WeightedSum(j))
        /\ RLe(last.step_size, last.gamma_max)

\* C3: in the L1 drivers the gap of every iteration is >= 0, and the
\* assertion gt_fw >= 0 of minimize_AFW_L1 never fails.
C3_GapNonNegative ==
    driver \in {"FW_L1", "PFW_L1", "AFW_L1"} =>
        /\ last.ev = "gap" => RLe(Zero, last.g_t)
        /\ ~(driver = "AFW_L1" /\ pc = "AssertionError")

\* C4: in minimize_FW_L1 started from an x0 with ||x0||_1 <= alpha, the
\* iterate, and with it every value the callback is given and the value
\* returned, satisfies ||x_t||_1 <= alpha, and every applied step lies in
\* [0, 1], for each of the three strategies.
C4_Feasible ==
    (driver = "FW_L1"
        /\ ls_strategy \in {"adaptive", "Lipschitz", "approx_ls"}) =>
        /\ RLe(Norm1(x_t), alpha)
        /\ RLe(Norm1(calls.arg), alpha)
        /\ last.ev = "update" =>
               RLe(Zero, last.step_size) /\ RLe(last.step_size, One)

\* a full step of minimize_FW_L1 has been applied and the iterate is on the
\* boundary of the ball
C4_FullStepApplied ==
    /\ Updated("FW_L1")
    /\ REq(last.step_size, One)
    /\ RLt(Zero, alpha)
    /\ REq(Norm1(x_t), alpha)

\* C5: in every driver, when the gap of an iteration is <= tol the solve
\* returns in that iteration: no line search, update or callback follows.
C5_StopsOnGap ==
    (last.ev = "gap" /\ RLe(last.g_t, tol)) => pc = "returned"

\* C6: in minimize_FW_L1 every applied step does not increase the loss,
\* under the adaptive strategy for any L_t > 0 and under the Lipschitz
\* strategy when L_t is at least the Lipschitz constant c of the gradient.
C6_LossMonotone ==
    (Updated("FW_L1")
        /\ \/ ls_strategy = "adaptive"
           \/ ls_strategy = "Lipschitz" /\ RLe(inp.c, L_t)) =>
        RLe(f_t, last.f_prev)

\* the length of the coefficient list before the last update, and 1 when the
\* toward atom of that update was new
LenBefore == Len(last.coefs_prev)
Appended == IF last.atom_new THEN 1 ELSE 0

\* the coefficients of the last update once the step is added to the toward
\* atom and before the away atom is treated
TowardAdded ==
    IF last.atom_new THEN Append(last.coefs_prev, last.step_size)
    ELSE [last.coefs_prev EXCEPT
              ![last.idx_min_vt_st] = RAdd(@, last.step_size)]

\* C7 as stated: in minimize_PFW_trace, when the step equals gamma_max the
\* coefficient list is one entry shorter after the iteration than before it.
C7_DropShortensByOne ==
    (Updated("PFW_trace") /\ REq(last.step_size, last.gamma_max)) =>
        Len(coefs_active_set) = LenBefore - 1

\* C7, amended: in minimize_PFW_trace the toward atom is appended first when
\* it is new; then, when the step equals gamma_max, the away atom and its
\* coefficient are removed, so that the lists are one entry shorter than
\* before only when the toward atom was already listed and as long as
\* before when it was new; otherwise nothing is removed and the away atom's
\* coefficient decreases by the step.
C7_DropRemovesAwayAtom ==
    Updated("PFW_trace") =>
        /\ Len(active_set) = Len(coefs_active_set)
        /\ IF REq(last.step_size, last.gamma_max)
           THEN /\ Len(coefs_active_set) = LenBefore + Appended - 1
                /\ coefs_active_set = RemoveAt(TowardAdded, last.vt_idx)
           ELSE /\ Len(coefs_active_set) = LenBefore + Appended
                /\ coefs_active_set[last.vt_idx] =
                       RSub(TowardAdded[last.vt_idx], last.step_size)

\* a drop step whose toward atom was already listed has shortened the list
C7_DropOfListedAtom ==
    /\ Updated("PFW_trace")
    /\ REq(last.step_size, last.gamma_max)
    /\ ~last.atom_new
    /\ Len(coefs_active_set) = LenBefore - 1

\* C8: with the adaptive strategy no update is applied and no iterate is
\* returned with L_t >= 1e10: once L_t is there the solve is in its line
\* search or has raised.
C8_CeilingAborts ==
    (ls_strategy = "adaptive" /\ RLe(L_ceiling, L_t)) =>
        pc \in {"adaptive", "backtrack", "ValueError(L_t)"}

\* C9: a solve ends in a configuration error if and only if ls_strategy is
\* none of 'adaptive', 'Lipschitz', 'approx_ls'; with such a value it makes
\* no update and returns no iterate.
C9_ConfigErrorIffUnknown ==
    IF ls_strategy \in {"adaptive", "Lipschitz", "approx_ls"}
    THEN pc # "ValueError(ls_strategy)"
    ELSE /\ last.updates = 0
         /\ pc \in {"loop", "ValueError(ls_strategy)"}

\* C10: the callback is called once with the initial iterate and once after
\* each update of the iterate, with the new iterate, and not in the
\* iteration that stops on the gap test: the number of calls is 1 + the
\* number of updates throughout, and at the return.
C10_CallbackCount ==
    /\ calls.n = 1 + last.updates
    /\ calls.arg = x_t
    /\ last.ev = "start" => calls.n = 1
    /\ pc = "returned" => calls.n = 1 + it

\* a solve has returned on the gap test after an update
C10_ReturnedOnGapAfterUpdate ==
    /\ pc = "returned"
    /\ last.ev = "gap"
    /\ RLe(last.g_t, tol)
    /\ calls.n = 2

\* the decay factor of the driver's adaptive line search
DecayOf ==
    CASE driver = "FW_L1" -> ratio_decrease
      [] driver = "FW_trace" -> decay_FW_trace
      [] driver = "PFW_trace" -> decay_PFW_trace
      [] OTHER -> decay_L1

\* C11: in the adaptive line search of every driver a rejected trial that is
\* followed by another trial doubles L_t, so that the (k+1)-th trial uses
\* 2^k times the L_t the search started with, and a search leaves L_t
\* multiplied by the decay factor only when its first trial ended it.
C11_RejectedTrialDoubles ==
    [][/\ (pc \in {"adaptive", "backtrack"} /\ pc' = pc /\ it' = it) =>
              L_t' = RMul(L_t, Two)
       /\ (pc \in {"adaptive", "backtrack"} /\ pc' = "loop"
              /\ L_t' = RMul(L_t, DecayOf)) => loc.i = 0]_vars

\* the vertex of slot j of the mask: +alpha e_j for j < n, -alpha e_(j-n)
\* for n <= j < 2n, the origin for j = 2n
VertexOfSlot(j) ==
    [k \in 1..n_features |->
        IF j < n_features /\ k = j + 1 THEN alpha
        ELSE IF n_features <= j /\ j < 2 * n_features /\ k = j - n_features + 1
        THEN RNeg(alpha)
        ELSE Zero]

\* C12: in minimize_PFW_L1 the gap g_t computed in an iteration equals
\* <grad, v_away - s_t>, s_t the oracle vertex and v_away the vertex of the
\* selected away slot, so that a stop on g_t <= tol is a stop on the
\* pairwise gap.
C12_GapIsPairwiseGap ==
    (driver = "PFW_L1" /\ last.ev = "gap") =>
        REq(last.g_t,
            Dot(grad, VSub(VertexOfSlot(loc.max_grad_active_idx),
                           VertexOfSlot(loc.idx_oracle))))
====
